---- MODULE Spec2Model ----
(***************************************************************************)
(* A model of iproute2-rs: the namespace switch engine and the isolated    *)
(* execution wrapper (src/ip/ipnetns.rs) and the netlink link / route      *)
(* request pipeline (src/ip/iplink.rs, veth.rs, bridge.rs, iproute.rs).    *)
(* System calls, the kernel and the netlink transport are the environment: *)
(* each call's outcome is a nondeterministic choice.                       *)
(***************************************************************************)
EXTENDS Integers, Sequences, FiniteSets, TLC

VARIABLES
    pc,          \* [Tasks -> position in the code]
    op,          \* [Tasks -> the public function the task runs, and its ns_name]
    netns,       \* [Tasks -> network namespace the task is in]
    mntns,       \* [Tasks -> mount namespace of the task's process]
    mounts,      \* [MntIds -> set of mounts of that mount namespace]
    shared,      \* TRUE while mounts made in the child's mount namespace propagate to the host's
    hostShared,  \* whether the host's root mount is a shared mount (environment)
    fds,         \* [Tasks -> open descriptors of the task's process]
    nsfiles,     \* names with a reference file under the namespace run dir
    curfd,       \* [Tasks -> descriptor held by the running set_net_ns]
    snsres,      \* [Tasks -> result of the last set_net_ns]
    mflags,      \* mount_flags of netns_switch (set of MsFlags names)
    switchres,   \* result of netns_switch in the child
    exitStatus,  \* exit status of the child, NoStatus while it runs
    result,      \* result of main's last public call
    syslog,      \* system calls (and the work) issued since main's last call started
    pre,         \* main's namespaces and mount table when its last call started
    calls,       \* number of public calls main has made
    lpc,         \* position of the running IPLink::execute / IPRoute::execute
    req,         \* the IPLink or IPRoute value being executed
    message,     \* the LinkMessage being built
    peer_message,\* the peer LinkMessage of Veth::link_type
    optIdx,      \* number of options the running options() loop has applied
    sent,        \* the requests handed to the transport by the running call
    stream,      \* the response frames not read yet
    nread,       \* number of response frames read
    lresult,     \* result of the last execute
    ifaces,      \* the kernel's interfaces: name, namespace, veth peer
    routes,      \* the kernel's routes
    events,      \* the link lookups and opens of the running call
    before,      \* ifaces and routes when the call started
    prev,        \* the previous call: its request, result and before
    lcalls,      \* number of execute calls made
    budget,      \* number of execute calls the run makes
    optBound,    \* bound on the options of a request of the run
    nsmounted,   \* names whose reference file has a network namespace mounted on it
    seen,        \* [Tasks -> the links the task's last new connection enumerated]
    delprev,     \* main's last call before its latest ip_net_ns_del, as that call ended
    etcdir,      \* the listing of /etc/netns/<name>/ the last bind_etc read
    added        \* the names whose namespace ip_net_ns_add created and nothing unmounted since

nsvars == <<pc, op, netns, mntns, mounts, shared, hostShared, fds, nsfiles, curfd,
            snsres, mflags, switchres, exitStatus, result, syslog, pre, calls>>

linkvars == <<lpc, req, message, peer_message, optIdx, sent, stream, nread, lresult, ifaces,
              routes, events, before, prev, lcalls, budget, optBound>>

\* reference mounts, enumerations and records of the namespace life cycle
lifevars == <<nsmounted, seen, delprev, etcdir, added>>

\* the namespace state an execute call leaves alone: all of it but the descriptors
nsrest == <<pc, op, netns, mntns, mounts, shared, hostShared, nsfiles, curfd,
            snsres, mflags, switchres, exitStatus, result, syslog, pre, calls, lifevars>>

vars == <<nsvars, linkvars, lifevars>>

\* ------------------------------------------------------------------ bounds
MaxCalls == 2

MaxOpts == 2
MaxPairOpts == 1

MaxOptSeq == 4

\* ------------------------------------------------------------------ constants
NETNS_RUN_DIR == "/var/run/netns/"

LongName == "a-name-of-256-bytes"

NsNames == {"ns1", LongName}

NameLen(n) == IF n = LongName THEN 256 ELSE 3

EtcFileNames == {"hosts", "resolv.conf"}

\* main is the caller's thread, child the process it forks, t1 and t2 the threads that
\* thread_net_ns_exec spawns in the caller's process
Threads == {"t1", "t2"}

Tasks == {"main", "child"} \cup Threads

\* the process a task belongs to, named by its first task
Proc(t) == IF t = "child" THEN "child" ELSE "main"

MntIds == {"host_mnt", "child_mnt"}

\* the exit status of a process is <<>> while it runs and <<code>> once it has exited
NoStatus == <<>>

NoFd == [num |-> 0, path |-> "", cloexec |-> FALSE, ns |-> ""]

NoOp == [fn |-> "none", ns |-> ""]

\* the result of read_dir: no directory, or the set of its entries
NoDir == [exists |-> FALSE, files |-> {}]

Dir(files) == [exists |-> TRUE, files |-> files]

\* ------------------------------------------------------------------ OS helpers
NsPath(dir, n) == dir \o n

FdNums(S) == {f.num : f \in S}

\* open(2) returns the lowest descriptor number not in use (0..2 are stdio)
LowestFree(S) == CHOOSE n \in 3..(3 + Cardinality(S)) :
                     /\ n \notin FdNums(S)
                     /\ \A m \in 3..(n - 1) : m \in FdNums(S)

SysMount(src, ro) == [target |-> "/sys", source |-> src, fstype |-> "sysfs", ro |-> ro]

BindMount(ns, f) == [target |-> "/etc/" \o f, source |-> "/etc/netns/" \o ns \o "/" \o f,
                     fstype |-> "none", ro |-> FALSE]

\* mount namespaces that receive a mount event made in m
Propagate(m) == IF m = "child_mnt" /\ ~shared THEN {m} ELSE
                IF m = "child_mnt" THEN {"child_mnt", "host_mnt"} ELSE
                IF "child_mnt" \in {mntns[t] : t \in Tasks} THEN {"host_mnt", "child_mnt"}
                ELSE {m}

DoMount(m, rec) == [x \in MntIds |-> IF x \in Propagate(m) THEN mounts[x] \cup {rec} ELSE mounts[x]]

DoUmount(m, target) ==
    [x \in MntIds |-> IF x \in Propagate(m) THEN {r \in mounts[x] : r.target # target}
                      ELSE mounts[x]]

Logged(t, c, ok) == Append(syslog, [by |-> t, call |-> c, ok |-> ok])

\* what a task that has not enumerated links has seen
NoListing == [at |-> 0, links |-> {}]

\* get_links on a connection opened by task t: the links of the task's network namespace
Listing(t) == {r.name : r \in {x \in ifaces : x.ns = netns[t]}}

\* an enumeration, and the number of calls the caller had made when it was taken
Enumerated(t) == [at |-> calls, links |-> Listing(t)]

\* the call before a delete: none
NoCall == [fn |-> "none", ns |-> "", result |-> "none", exit |-> NoStatus, workErr |-> FALSE,
           existed |-> FALSE]

\* ------------------------------------------------------------------ set_net_ns
\* open flags of set_net_ns: O_RDONLY | O_CLOEXEC
SetNetNsOpenFlags == {"O_RDONLY", "O_CLOEXEC"}

\* the descriptors of the process after the close(fd) of the setns failure path
FdsAfterSetnsErrLeak(open, fd) == open

FdsAfterSetnsErr(open, fd) == open \ {fd}

\* the descriptors of the process after the close(fd) of the success path
FdsAfterSetnsOk(open, fd) == open \ {fd}

\* result of set_net_ns once close(fd) has returned
SetNetNsResultOkAfterSetnsErr(setnsOk, closeOk) == IF ~closeOk THEN "ErrClose" ELSE "Ok"

SetNetNsResult(setnsOk, closeOk) ==
    IF ~closeOk THEN "ErrClose" ELSE IF setnsOk THEN "Ok" ELSE "ErrSetns"

SetNetNsOpen(t) ==
    /\ pc[t] = "sns_open"
    /\ \E ok \in (IF op[t].ns \in nsfiles THEN BOOLEAN ELSE {FALSE}) :
         IF ok
         THEN LET fd == [num |-> LowestFree(fds[Proc(t)]),
                         path |-> NsPath(NETNS_RUN_DIR, op[t].ns),
                         cloexec |-> "O_CLOEXEC" \in SetNetNsOpenFlags,
                         ns |-> op[t].ns]
              IN  /\ fds' = [fds EXCEPT ![Proc(t)] = @ \cup {fd}]
                  /\ curfd' = [curfd EXCEPT ![t] = fd]
                  /\ pc' = [pc EXCEPT ![t] = "sns_setns"]
                  /\ snsres' = snsres
                  /\ syslog' = Logged(t, "open", TRUE)
         ELSE /\ snsres' = [snsres EXCEPT ![t] = "ErrOpen"]
              /\ pc' = [pc EXCEPT ![t] = "sns_ret"]
              /\ syslog' = Logged(t, "open", FALSE)
              /\ UNCHANGED <<fds, curfd>>
    /\ UNCHANGED <<linkvars, lifevars, op, netns, mntns, mounts, shared, hostShared, nsfiles, mflags,
                   switchres, exitStatus, result, pre, calls>>

\* setns(fd, CLONE_NEWNET) can succeed only on a reference with a namespace mounted on it
SetnsOutcomes(fd) == IF fd.ns \in nsmounted THEN BOOLEAN ELSE {FALSE}

SetNetNsSetns(t) ==
    /\ pc[t] = "sns_setns"
    /\ \E ok \in SetnsOutcomes(curfd[t]) :
         /\ netns' = IF ok THEN [netns EXCEPT ![t] = op[t].ns] ELSE netns
         /\ pc' = [pc EXCEPT ![t] = IF ok THEN "sns_close_ok" ELSE "sns_close_err"]
         /\ syslog' = Logged(t, "setns", ok)
    /\ UNCHANGED <<linkvars, lifevars, op, mntns, mounts, shared, hostShared, fds, nsfiles, curfd, snsres,
                   mflags, switchres, exitStatus, result, pre, calls>>

\* close(fd): the descriptor is released whatever close returns
SetNetNsClose(t) ==
    /\ pc[t] \in {"sns_close_ok", "sns_close_err"}
    /\ \E ok \in BOOLEAN :
         /\ fds' = [fds EXCEPT ![Proc(t)] = IF pc[t] = "sns_close_ok"
                                      THEN FdsAfterSetnsOk(@, curfd[t])
                                      ELSE FdsAfterSetnsErr(@, curfd[t])]
         /\ snsres' = [snsres EXCEPT ![t] = SetNetNsResult(pc[t] = "sns_close_ok", ok)]
         /\ syslog' = Logged(t, "close", ok)
    /\ pc' = [pc EXCEPT ![t] = "sns_ret"]
    /\ UNCHANGED <<linkvars, lifevars, op, netns, mntns, mounts, shared, hostShared, nsfiles, curfd, mflags,
                   switchres, exitStatus, result, pre, calls>>

\* ------------------------------------------------------------------ main calls set_net_ns
MainSnapshot == [netns |-> netns["main"], mntns |-> mntns["main"],
                 mounts |-> mounts[mntns["main"]]]

CallSetNetNs(n) ==
    /\ pc["main"] = "idle"
    /\ calls < MaxCalls
    /\ calls' = calls + 1
    /\ op' = [op EXCEPT !["main"] = [fn |-> "set_net_ns", ns |-> n]]
    /\ pc' = [pc EXCEPT !["main"] = "sns_open"]
    /\ result' = "none"
    /\ syslog' = <<>>
    /\ pre' = MainSnapshot
    /\ exitStatus' = NoStatus
    /\ snsres' = [snsres EXCEPT !["main"] = "none"]
    /\ curfd' = [curfd EXCEPT !["main"] = NoFd]
    /\ UNCHANGED <<linkvars, lifevars, netns, mntns, mounts, shared, hostShared, fds, nsfiles, mflags, switchres>>

ReturnSetNetNs ==
    /\ pc["main"] = "sns_ret"
    /\ op["main"].fn = "set_net_ns"
    /\ result' = IF snsres["main"] = "Ok" THEN "Ok" ELSE "Err"
    /\ pc' = [pc EXCEPT !["main"] = "idle"]
    /\ UNCHANGED <<linkvars, lifevars, op, netns, mntns, mounts, shared, hostShared, fds, nsfiles, curfd,
                   snsres, mflags, switchres, exitStatus, syslog, pre, calls>>

\* ------------------------------------------------------------------ netns_switch (in the child)
AfterSetNetNs(r) == IF r = "Ok" THEN "unshare" ELSE "switch_ret"

AfterUnshareIgnored(ok) == "rslave"

AfterUnshare(ok) == IF ok THEN "rslave" ELSE "switch_ret"

AfterRslaveIgnored(ok) == "umount_sys"

AfterRslave(ok) == IF ok THEN "umount_sys" ELSE "switch_ret"

AfterMountSys(ok) == IF ok THEN "bind_etc" ELSE "switch_ret"

NetnsSwitchSetNetNs ==
    /\ pc["child"] = "sns_ret"
    /\ pc' = [pc EXCEPT !["child"] = AfterSetNetNs(snsres["child"])]
    /\ switchres' = IF AfterSetNetNs(snsres["child"]) = "switch_ret" THEN "Err" ELSE switchres
    /\ UNCHANGED <<linkvars, lifevars, op, netns, mntns, mounts, shared, hostShared, fds, nsfiles, curfd,
                   snsres, mflags, exitStatus, result, syslog, pre, calls>>

NetnsSwitchUnshare ==
    /\ pc["child"] = "unshare"
    /\ \E ok \in BOOLEAN :
         /\ mntns' = IF ok THEN [mntns EXCEPT !["child"] = "child_mnt"] ELSE mntns
         /\ mounts' = IF ok THEN [mounts EXCEPT !["child_mnt"] = mounts[mntns["child"]]]
                      ELSE mounts
         /\ shared' = IF ok THEN hostShared ELSE shared
         /\ pc' = [pc EXCEPT !["child"] = AfterUnshare(ok)]
         /\ switchres' = IF AfterUnshare(ok) = "switch_ret" THEN "Err" ELSE switchres
         /\ syslog' = Logged("child", "unshare", ok)
    /\ UNCHANGED <<linkvars, lifevars, op, netns, hostShared, fds, nsfiles, curfd, snsres, mflags,
                   exitStatus, result, pre, calls>>

\* mount("", "/", "none", MS_SLAVE | MS_REC): the child's mounts stop propagating out
NetnsSwitchRslave ==
    /\ pc["child"] = "rslave"
    /\ \E ok \in BOOLEAN :
         /\ shared' = IF ok /\ mntns["child"] = "child_mnt" THEN FALSE ELSE shared
         /\ pc' = [pc EXCEPT !["child"] = AfterRslave(ok)]
         /\ switchres' = IF AfterRslave(ok) = "switch_ret" THEN "Err" ELSE switchres
         /\ syslog' = Logged("child", "mount_rslave", ok)
    /\ mflags' = {}
    /\ UNCHANGED <<linkvars, lifevars, op, netns, mntns, mounts, hostShared, fds, nsfiles, curfd, snsres,
                   exitStatus, result, pre, calls>>

\* umount2("/sys", MNT_DETACH); on failure statvfs("/sys") decides MS_RDONLY
NetnsSwitchUmountSys ==
    /\ pc["child"] = "umount_sys"
    /\ \E ok \in BOOLEAN, statOk \in BOOLEAN :
         /\ (ok => statOk)
         /\ mounts' = IF ok THEN DoUmount(mntns["child"], "/sys") ELSE mounts
         /\ mflags' = IF ~ok /\ statOk /\ (\E r \in mounts[mntns["child"]] :
                                              r.target = "/sys" /\ r.ro)
                      THEN {"MS_RDONLY"} ELSE {}
         /\ syslog' = Logged("child", "umount_sys", ok)
    /\ pc' = [pc EXCEPT !["child"] = "mount_sys"]
    /\ UNCHANGED <<linkvars, lifevars, op, netns, mntns, shared, hostShared, fds, nsfiles, curfd, snsres,
                   switchres, exitStatus, result, pre, calls>>

NetnsSwitchMountSys ==
    /\ pc["child"] = "mount_sys"
    /\ \E ok \in BOOLEAN :
         /\ mounts' = IF ok THEN DoMount(mntns["child"],
                                         SysMount(op["child"].ns, "MS_RDONLY" \in mflags))
                      ELSE mounts
         /\ pc' = [pc EXCEPT !["child"] = AfterMountSys(ok)]
         /\ switchres' = IF AfterMountSys(ok) = "switch_ret" THEN "Err" ELSE switchres
         /\ syslog' = Logged("child", "mount_sys", ok)
    /\ UNCHANGED <<linkvars, lifevars, op, netns, mntns, shared, hostShared, fds, nsfiles, curfd, snsres,
                   mflags, exitStatus, result, pre, calls>>

\* ------------------------------------------------------------------ bind_etc
NAME_MAX == 255

RECURSIVE MountAll(_, _, _, _)
MountAll(tbl, m, ns, files) ==
    IF files = {} THEN tbl
    ELSE LET f == CHOOSE x \in files : TRUE
         IN  MountAll([x \in MntIds |-> IF x \in Propagate(m)
                                        THEN tbl[x] \cup {BindMount(ns, f)} ELSE tbl[x]],
                      m, ns, files \ {f})

RECURSIVE LogAll(_, _, _)
LogAll(log, files, okset) ==
    IF files = {} THEN log
    ELSE LET f == CHOOSE x \in files : TRUE
         IN  LogAll(Append(log, [by |-> "child", call |-> "mount_bind", ok |-> f \in okset]),
                    files \ {f}, okset)

\* the directory listings read_dir may return for a name: none when the name is too long
\* for the length check to let bind_etc reach read_dir
BindEtcDirsNoLengthCheck(ns) == {NoDir} \cup {Dir(fs) : fs \in SUBSET EtcFileNames}

BindEtcDirs(ns) == IF NameLen(ns) > NAME_MAX THEN {NoDir}
                   ELSE {NoDir} \cup {Dir(fs) : fs \in SUBSET EtcFileNames}

BindEtc ==
    /\ pc["child"] = "bind_etc"
    /\ \E dir \in BindEtcDirs(op["child"].ns) :
         IF ~dir.exists
         THEN /\ etcdir' = dir
              /\ UNCHANGED <<mounts, syslog>>
         ELSE \E okset \in SUBSET dir.files :
                /\ mounts' = MountAll(mounts, mntns["child"], op["child"].ns, okset)
                /\ syslog' = LogAll(syslog, dir.files, okset)
                /\ etcdir' = dir
    /\ switchres' = "Ok"
    /\ pc' = [pc EXCEPT !["child"] = "switch_ret"]
    /\ UNCHANGED <<linkvars, nsmounted, seen, delprev, added, op, netns, mntns, shared, hostShared, fds, nsfiles, curfd, snsres,
                   mflags, exitStatus, result, pre, calls>>

\* ------------------------------------------------------------------ ip_net_ns_exec
\* exit status of the child: exit(1) when netns_switch failed, exit(1) when the work
\* returned Err, exit(0) otherwise
ChildExitCodeAlwaysZero(switchOk, workOk) == IF ~switchOk THEN 1 ELSE 0

ChildExitCode(switchOk, workOk) == IF ~switchOk THEN 1 ELSE IF ~workOk THEN 1 ELSE 0

\* NetworkNamespace::parent_process(child): waitpid, Ok for exit status 0 only
ParentProcess(status) == IF status = <<0>> THEN "Ok" ELSE "Err"

IpNetNsExecFork(n) ==
    /\ pc["main"] = "idle"
    /\ calls < MaxCalls
    /\ calls' = calls + 1
    /\ pre' = MainSnapshot
    /\ exitStatus' = NoStatus
    /\ switchres' = "none"
    /\ mflags' = {}
    /\ \E ok \in BOOLEAN :
         IF ok
         THEN /\ pc' = [pc EXCEPT !["main"] = "wait", !["child"] = "sns_open"]
              /\ op' = [op EXCEPT !["main"] = [fn |-> "ip_net_ns_exec", ns |-> n],
                                  !["child"] = [fn |-> "ip_net_ns_exec", ns |-> n]]
              /\ netns' = [netns EXCEPT !["child"] = netns["main"]]
              /\ mntns' = [mntns EXCEPT !["child"] = mntns["main"]]
              /\ fds' = [fds EXCEPT !["child"] = fds["main"]]
              /\ result' = "none"
              /\ syslog' = <<[by |-> "main", call |-> "fork", ok |-> TRUE]>>
         ELSE /\ pc' = pc
              /\ op' = [op EXCEPT !["main"] = [fn |-> "ip_net_ns_exec", ns |-> n]]
              /\ result' = "Err"
              /\ syslog' = <<[by |-> "main", call |-> "fork", ok |-> FALSE]>>
              /\ UNCHANGED <<netns, mntns, fds>>
    /\ snsres' = [t \in Tasks |-> "none"]
    /\ curfd' = [t \in Tasks |-> NoFd]
    /\ UNCHANGED <<linkvars, lifevars, mounts, shared, hostShared, nsfiles>>

\* if netns_switch(ns_name).is_err() { exit(1) }
ChildAfterSwitch ==
    /\ pc["child"] = "switch_ret"
    /\ IF switchres = "Ok"
       THEN /\ pc' = [pc EXCEPT !["child"] = "work"]
            /\ UNCHANGED <<exitStatus, syslog>>
       ELSE /\ pc' = [pc EXCEPT !["child"] = "exited"]
            /\ exitStatus' = <<ChildExitCode(FALSE, FALSE)>>
            /\ syslog' = Logged("child", "exit", TRUE)
    /\ UNCHANGED <<linkvars, lifevars, op, netns, mntns, mounts, shared, hostShared, fds, nsfiles, curfd,
                   snsres, mflags, switchres, result, pre, calls>>

\* f() runs and returns Ok or Err; the child exits with the matching status
ChildWork ==
    /\ pc["child"] = "work"
    /\ \E workOk \in BOOLEAN :
         /\ exitStatus' = <<ChildExitCode(TRUE, workOk)>>
         /\ syslog' = Append(Logged("child", "work", workOk),
                             [by |-> "child", call |-> "exit", ok |-> TRUE])
    /\ pc' = [pc EXCEPT !["child"] = "exited"]
    /\ seen' = [seen EXCEPT !["child"] = Enumerated("child")]
    /\ UNCHANGED <<linkvars, nsmounted, delprev, etcdir, added, op, netns, mntns, mounts, shared, hostShared, fds, nsfiles, curfd,
                   snsres, mflags, switchres, result, pre, calls>>

\* the parent reaps the child: its descriptors and its mount namespace are gone
ParentWait ==
    /\ pc["main"] = "wait"
    /\ pc["child"] = "exited"
    /\ result' = ParentProcess(exitStatus)
    /\ pc' = [pc EXCEPT !["main"] = "idle", !["child"] = "none"]
    /\ fds' = [fds EXCEPT !["child"] = {}]
    /\ netns' = [netns EXCEPT !["child"] = "host"]
    /\ mntns' = [mntns EXCEPT !["child"] = "host_mnt"]
    /\ mounts' = [mounts EXCEPT !["child_mnt"] = {}]
    /\ shared' = FALSE
    /\ op' = [op EXCEPT !["child"] = NoOp]
    /\ UNCHANGED <<linkvars, lifevars, hostShared, nsfiles, curfd, snsres, mflags, switchres, exitStatus,
                   syslog, pre, calls>>

\* ------------------------------------------------------------------ netlink constants
NLM_F_REQUEST == 1

NLM_F_ACK == 4

NLM_F_EXCL == 512

NLM_F_CREATE == 1024

IFF_UP == 1

NETNS_PATH == "/run/netns/"

\* bitwise operations on unsigned integers
RECURSIVE BitAnd(_, _)
BitAnd(a, b) == IF a = 0 \/ b = 0 THEN 0
                ELSE (a % 2) * (b % 2) + 2 * BitAnd(a \div 2, b \div 2)

RECURSIVE BitOr(_, _)
BitOr(a, b) == IF a = 0 THEN b ELSE IF b = 0 THEN a
               ELSE (IF a % 2 = 1 \/ b % 2 = 1 THEN 1 ELSE 0) + 2 * BitOr(a \div 2, b \div 2)

\* a & !b
BitClear(a, b) == a - BitAnd(a, b)

\* ------------------------------------------------------------------ request values
LinkNames == {"v0", "v1"}

MasterNames == {"v1"}

LinkNsNames == {"ns1"}

RouteMsgs == {"r1", "r2"}

OptUp == [t |-> "Up", arg |-> ""]

OptDown == [t |-> "Down", arg |-> ""]

OptMaster(n) == [t |-> "Master", arg |-> n]

OptNetNS(n) == [t |-> "NetNS", arg |-> n]

Opts == {OptUp, OptDown} \cup {OptMaster(n) : n \in MasterNames}
            \cup {OptNetNS(n) : n \in LinkNsNames}

RECURSIVE SeqsUpTo(_, _)
SeqsUpTo(S, k) == IF k = 0 THEN {<<>>}
                  ELSE LET shorter == SeqsUpTo(S, k - 1)
                       IN  shorter \cup {Append(q, x) : q \in shorter, x \in S}

NoKind == [kind |-> "none", peer_name |-> "", options |-> <<>>]

Bridge == [kind |-> "bridge", peer_name |-> "", options |-> <<>>]

Veth(p, o) == [kind |-> "veth", peer_name |-> p, options |-> o]

IPLink(a, n, o, lt) == [type |-> "link", action |-> a, name |-> n, options |-> o,
                        link_type |-> lt, msg |-> ""]

IPRoute(a, m) == [type |-> "route", action |-> a, name |-> "", options |-> <<>>,
                  link_type |-> NoKind, msg |-> m]

NoReq == [type |-> "none", action |-> "", name |-> "", options |-> <<>>,
          link_type |-> NoKind, msg |-> ""]

\* the IPLink values whose options and peer options number at most k together
LinkRequests(k) ==
    LET S == SeqsUpTo(Opts, k)
    IN  {IPLink(a, n, o, lt) : a \in {"Add", "Delete", "Set"}, n \in LinkNames,
                               o \in S, lt \in {NoKind, Bridge}}
        \cup UNION {{IPLink(a, n, o, Veth(p, po)) :
                       a \in {"Add", "Delete", "Set"}, n \in LinkNames, p \in LinkNames,
                       po \in {q \in S : Len(q) <= k - Len(o)}} : o \in S}

RouteRequests == {IPRoute(a, m) : a \in {"Add", "Del"}, m \in RouteMsgs}

\* ------------------------------------------------------------------ link message
DefaultLinkMessage == [flags |-> 0, change_mask |-> 0, nlas |-> <<>>]

NlaIfName(n) == [t |-> "IfName", s |-> n, fd |-> 0, info |-> <<>>]

NlaMaster(index) == [t |-> "Master", s |-> index, fd |-> 0, info |-> <<>>]

NlaNetNsFd(fd) == [t |-> "NetNsFd", s |-> "", fd |-> fd, info |-> <<>>]

NlaInfo(infos) == [t |-> "Info", s |-> "", fd |-> 0, info |-> infos]

InfoKind(k) == [t |-> "Kind", kind |-> k, peer |-> DefaultLinkMessage]

InfoDataVeth(peer) == [t |-> "Data", kind |-> "veth", peer |-> peer]

InfoDataBridge == [t |-> "Data", kind |-> "bridge", peer |-> DefaultLinkMessage]

\* name(): push Nla::IfName
NameNone(n, m) == m

Name(n, m) == [m EXCEPT !.nlas = Append(@, NlaIfName(n))]

\* Opt::Up and Opt::Down on the message header
OptUpDownNoClear(o, m) ==
    [m EXCEPT !.change_mask = BitOr(@, IFF_UP), !.flags = BitOr(@, IFF_UP)]

OptUpDown(o, m) ==
    IF o.t = "Up"
    THEN [m EXCEPT !.change_mask = BitOr(@, IFF_UP), !.flags = BitOr(@, IFF_UP)]
    ELSE [m EXCEPT !.change_mask = BitOr(@, IFF_UP), !.flags = BitClear(@, IFF_UP)]

\* the kernel index of a link, as get_link_name reports it in link.header.index
IfIndex(n) == "ifindex:" \o n

\* open flags of Opt::NetNS: O_RDONLY
NetNSOpenFlags == {"O_RDONLY"}

\* ------------------------------------------------------------------ request header
\* Action::action (links)
ActionFlagsNoExcl(a) ==
    IF a = "Add" THEN BitOr(BitOr(NLM_F_REQUEST, NLM_F_ACK), NLM_F_CREATE)
    ELSE BitOr(NLM_F_REQUEST, NLM_F_ACK)

ActionFlagsNoCreate(a) ==
    IF a = "Add" THEN BitOr(BitOr(NLM_F_REQUEST, NLM_F_ACK), NLM_F_EXCL)
    ELSE BitOr(NLM_F_REQUEST, NLM_F_ACK)

ActionFlagsCreateOnSet(a) ==
    IF a \in {"Add", "Set"}
    THEN BitOr(BitOr(BitOr(NLM_F_REQUEST, NLM_F_ACK), NLM_F_EXCL), NLM_F_CREATE)
    ELSE BitOr(NLM_F_REQUEST, NLM_F_ACK)

ActionFlags(a) ==
    IF a = "Add"
    THEN BitOr(BitOr(BitOr(NLM_F_REQUEST, NLM_F_ACK), NLM_F_EXCL), NLM_F_CREATE)
    ELSE BitOr(NLM_F_REQUEST, NLM_F_ACK)

\* IPLink::execute: the operation code of the request
LinkOp(a) == IF a = "Delete" THEN "DelLink" ELSE "NewLink"

\* IPRoute::execute: operation code and flags
RouteOp(a) == IF a = "Del" THEN "DelRoute" ELSE "NewRoute"

RouteFlags(a) ==
    IF a = "Add"
    THEN BitOr(BitOr(BitOr(NLM_F_REQUEST, NLM_F_ACK), NLM_F_EXCL), NLM_F_CREATE)
    ELSE BitOr(NLM_F_REQUEST, NLM_F_ACK)

NetlinkMessage(o, f, m, r) == [op |-> o, flags |-> f, message |-> m, route |-> r]

\* ------------------------------------------------------------------ results
NoResult == [status |-> "none", kind |-> "", code |-> ""]

Ok == [status |-> "Ok", kind |-> "", code |-> ""]

Err(k, c) == [status |-> "Err", kind |-> k, code |-> c]

\* ------------------------------------------------------------------ response frames
Ack == [t |-> "Ack", code |-> ""]

Data == [t |-> "Data", code |-> ""]

ErrorFrame(c) == [t |-> "Error", code |-> c]

\* ------------------------------------------------------------------ kernel and transport
NoPeer == [name |-> "", ns |-> ""]

Link(n, ns, peer) == [name |-> n, ns |-> ns, peer |-> peer]

Has(tbl, n, ns) == \E r \in tbl : r.name = n /\ r.ns = ns

AttrsOf(nlas, t) == SelectSeq(nlas, LAMBDA a : a.t = t)

\* the kernel takes the last attribute of a type
MsgName(m) == LET q == AttrsOf(m.nlas, "IfName") IN IF Len(q) = 0 THEN "" ELSE q[Len(q)].s

MsgInfo(m) == LET q == AttrsOf(m.nlas, "Info") IN IF Len(q) = 0 THEN <<>> ELSE q[Len(q)].info

MsgKind(m) == LET q == SelectSeq(MsgInfo(m), LAMBDA i : i.t = "Kind")
              IN  IF Len(q) = 0 THEN "none" ELSE q[Len(q)].kind

MsgPeer(m) == LET q == SelectSeq(MsgInfo(m), LAMBDA i : i.t = "Data")
              IN  IF Len(q) = 0 THEN DefaultLinkMessage ELSE q[Len(q)].peer

\* the namespace a message's NetNsFd attribute names, resolved in the sender's descriptors
MsgNetNs(m, fdtable) ==
    LET q == AttrsOf(m.nlas, "NetNsFd")
    IN  IF Len(q) = 0 THEN [ok |-> TRUE, ns |-> "host"]
        ELSE IF \E f \in fdtable : f.num = q[Len(q)].fd
             THEN [ok |-> TRUE, ns |-> (CHOOSE f \in fdtable : f.num = q[Len(q)].fd).ns]
             ELSE [ok |-> FALSE, ns |-> ""]

Verdict(tbl, v) == [tbl |-> tbl, verdict |-> v]

\* a link moved to another namespace; its veth peer follows the reference
MoveLink(tbl, n, from, to) ==
    {IF r.name = n /\ r.ns = from THEN [r EXCEPT !.ns = to]
     ELSE IF r.peer = [name |-> n, ns |-> from] THEN [r EXCEPT !.peer.ns = to]
     ELSE r : r \in tbl}

\* RTM_NEWLINK in the sender's namespace (host)
KernelNewLink(tbl, m, flags, fdtable) ==
    LET n    == MsgName(m)
        dest == MsgNetNs(m, fdtable)
        peer == MsgPeer(m)
        p    == MsgName(peer)
        pns  == MsgNetNs(peer, fdtable)
    IN  IF Has(tbl, n, "host")
        THEN IF BitAnd(flags, NLM_F_EXCL) # 0 THEN Verdict(tbl, ErrorFrame("EEXIST"))
             ELSE IF ~dest.ok THEN Verdict(tbl, ErrorFrame("EINVAL"))
             ELSE IF dest.ns = "host" THEN Verdict(tbl, Ack)
             ELSE IF Has(tbl, n, dest.ns) THEN Verdict(tbl, ErrorFrame("EEXIST"))
             ELSE Verdict(MoveLink(tbl, n, "host", dest.ns), Ack)
        ELSE IF BitAnd(flags, NLM_F_CREATE) = 0 THEN Verdict(tbl, ErrorFrame("ENODEV"))
        ELSE IF MsgKind(m) = "none" THEN Verdict(tbl, ErrorFrame("EOPNOTSUPP"))
        ELSE IF ~dest.ok \/ ~pns.ok THEN Verdict(tbl, ErrorFrame("EINVAL"))
        ELSE IF Has(tbl, n, dest.ns) THEN Verdict(tbl, ErrorFrame("EEXIST"))
        ELSE IF MsgKind(m) = "bridge" THEN Verdict(tbl \cup {Link(n, dest.ns, NoPeer)}, Ack)
        ELSE IF Has(tbl, p, pns.ns) \/ (p = n /\ pns.ns = dest.ns)
             THEN Verdict(tbl, ErrorFrame("EEXIST"))
        ELSE Verdict(tbl \cup {Link(n, dest.ns, [name |-> p, ns |-> pns.ns]),
                              Link(p, pns.ns, [name |-> n, ns |-> dest.ns])}, Ack)

\* RTM_DELLINK in the sender's namespace: a veth goes with its peer
KernelDelLink(tbl, m) ==
    LET n == MsgName(m)
    IN  IF ~Has(tbl, n, "host") THEN Verdict(tbl, ErrorFrame("ENODEV"))
        ELSE Verdict({r \in tbl : ~(r.name = n /\ r.ns = "host")
                                  /\ r.peer # [name |-> n, ns |-> "host"]}, Ack)

KernelLink(tbl, nl, fdtable) ==
    IF nl.op = "DelLink" THEN KernelDelLink(tbl, nl.message)
    ELSE KernelNewLink(tbl, nl.message, nl.flags, fdtable)

KernelRoute(tbl, nl) ==
    IF nl.op = "DelRoute"
    THEN IF nl.route \in tbl THEN Verdict(tbl \ {nl.route}, Ack)
         ELSE Verdict(tbl, ErrorFrame("ESRCH"))
    ELSE IF nl.route \in tbl
         THEN IF BitAnd(nl.flags, NLM_F_EXCL) # 0 THEN Verdict(tbl, ErrorFrame("EEXIST"))
              ELSE Verdict(tbl, Ack)
         ELSE IF BitAnd(nl.flags, NLM_F_CREATE) = 0 THEN Verdict(tbl, ErrorFrame("ENOENT"))
              ELSE Verdict(tbl \cup {nl.route}, Ack)

\* the response streams the transport may deliver for a verdict: data frames may come
\* first, an acknowledgement is sent only when asked for, frames may follow an error
Streams(v, flags) ==
    LET lead == {<<>>, <<Data>>}
    IN  IF v.t = "Error"
        THEN {a \o <<v>> \o b : a \in lead, b \in {<<>>, <<Data>>, <<ErrorFrame("ENOBUFS")>>}}
        ELSE IF BitAnd(flags, NLM_F_ACK) # 0 THEN {a \o <<v>> : a \in lead}
        ELSE lead

\* open(2) of a namespace reference succeeds only if the file exists
OpenOutcomes(n) == IF n \in nsfiles THEN BOOLEAN ELSE {FALSE}

Event(e, arg, ok, fd) == [ev |-> e, arg |-> arg, ok |-> ok, fd |-> fd]

Snapshot == [ifaces |-> ifaces, routes |-> routes, fds |-> fds["main"]]

NoPrev == [req |-> NoReq, result |-> NoResult, before |-> [ifaces |-> {}, routes |-> {}, fds |-> {}],
           sent |-> <<>>]

\* ------------------------------------------------------------------ IPLink::execute
Execute(r) ==
    /\ lpc = "idle"
    /\ lcalls < budget
    /\ lcalls' = lcalls + 1
    /\ req' = r
    /\ message' = IF r.type = "link" THEN Name(r.name, DefaultLinkMessage) ELSE DefaultLinkMessage
    /\ peer_message' = DefaultLinkMessage
    /\ optIdx' = 0
    /\ lpc' = IF r.type = "link" THEN "opts" ELSE "rsend"
    /\ sent' = <<>>
    /\ stream' = <<>>
    /\ nread' = 0
    /\ lresult' = NoResult
    /\ events' = <<>>
    /\ before' = Snapshot
    /\ prev' = IF lcalls = 0 THEN NoPrev
               ELSE [req |-> req, result |-> lresult, before |-> before, sent |-> sent]
    /\ UNCHANGED <<ifaces, routes, budget, optBound, fds, nsrest>>

\* let mut message = LinkMessage::default(); name(&self.name, &mut message);
IPLinkExecute ==
    /\ lpc = "idle"
    /\ lcalls < budget
    /\ \E r \in LinkRequests(optBound) : Execute(r)

\* opt.opt(message)?  -- an Err of Opt::opt ends options() and, through the ? of its
\* caller, execute: where the call goes on and the index of the loop
OnOptErrIgnored(at, idx) == [pc |-> at, idx |-> idx + 1]

OnOptErr(at, idx) == [pc |-> "idle", idx |-> idx]

\* Opt::opt on the message that options() was handed
OptApply(at, o) ==
    CASE o.t \in {"Up", "Down"} ->
           /\ message' = OptUpDown(o, message)
           /\ optIdx' = optIdx + 1
           /\ UNCHANGED <<lpc, lresult, events, fds>>
      [] o.t = "Master" ->
           IF Has(ifaces, o.arg, "host")
           THEN /\ message' = [message EXCEPT !.nlas = Append(@, NlaMaster(IfIndex(o.arg)))]
                /\ optIdx' = optIdx + 1
                /\ events' = Append(events, Event("lookup", o.arg, TRUE, 0))
                /\ UNCHANGED <<lpc, lresult, fds>>
           ELSE /\ lresult' = IF OnOptErr(at, optIdx).pc = "idle" THEN Err("NotFound", o.arg)
                              ELSE lresult
                /\ lpc' = OnOptErr(at, optIdx).pc
                /\ optIdx' = OnOptErr(at, optIdx).idx
                /\ events' = Append(events, Event("lookup", o.arg, FALSE, 0))
                /\ UNCHANGED <<message, fds>>
      [] o.t = "NetNS" ->
           \E ok \in OpenOutcomes(o.arg) :
             IF ok
             THEN LET fd == [num |-> LowestFree(fds["main"]),
                             path |-> NsPath(NETNS_PATH, o.arg),
                             cloexec |-> "O_CLOEXEC" \in NetNSOpenFlags,
                             ns |-> o.arg]
                  IN  /\ fds' = [fds EXCEPT !["main"] = @ \cup {fd}]
                      /\ message' = [message EXCEPT !.nlas = Append(@, NlaNetNsFd(fd.num))]
                      /\ optIdx' = optIdx + 1
                      /\ events' = Append(events, Event("open", o.arg, TRUE, fd.num))
                      /\ UNCHANGED <<lpc, lresult>>
             ELSE /\ lresult' = IF OnOptErr(at, optIdx).pc = "idle" THEN Err("Open", o.arg)
                                ELSE lresult
                  /\ lpc' = OnOptErr(at, optIdx).pc
                  /\ optIdx' = OnOptErr(at, optIdx).idx
                  /\ events' = Append(events, Event("open", o.arg, FALSE, 0))
                  /\ UNCHANGED <<message, fds>>

\* options(): for opt in opts { opt.opt(message)?; }
OptionsLoop(at, opts, donepc) ==
    /\ lpc = at
    /\ IF optIdx = Len(opts)
       THEN /\ lpc' = donepc
            /\ optIdx' = 0
            /\ UNCHANGED <<message, lresult, events, fds>>
       ELSE OptApply(at, opts[optIdx + 1])
    /\ UNCHANGED <<req, peer_message, sent, stream, nread, ifaces, routes, before, prev,
                   lcalls, budget, optBound, nsrest>>

\* options(self.options.clone(), &mut message)?;
LinkOptions == OptionsLoop("opts", req.options, "kind")

\* self.link_type.as_ref().map_or(Ok(()), |link_type| link_type.link_type(&mut message))?
\* Bridge::link_type, and the start of Veth::link_type
LinkType ==
    /\ lpc = "kind"
    /\ CASE req.link_type.kind = "none" ->
              /\ lpc' = "send"
              /\ UNCHANGED <<message, peer_message>>
         [] req.link_type.kind = "bridge" ->
              /\ message' = [message EXCEPT
                               !.nlas = Append(@, NlaInfo(<<InfoKind("bridge"), InfoDataBridge>>))]
              /\ lpc' = "send"
              /\ UNCHANGED peer_message
         [] req.link_type.kind = "veth" ->
              /\ peer_message' = Name(req.link_type.peer_name, DefaultLinkMessage)
              /\ lpc' = "kind_opts"
              /\ UNCHANGED message
    /\ UNCHANGED <<req, optIdx, sent, stream, nread, lresult, ifaces, routes, events, before,
                   prev, lcalls, budget, optBound, fds, nsrest>>

\* Veth::link_type: options(self.options.clone(), message)?  -- message is the parent's
VethOptions == OptionsLoop("kind_opts", req.link_type.options, "kind_done")

\* Veth::link_type: push Info::Data(Veth(Peer(peer_message))), push Nla::Info
VethFinish ==
    /\ lpc = "kind_done"
    /\ message' = [message EXCEPT
                     !.nlas = Append(@, NlaInfo(<<InfoKind("veth"), InfoDataVeth(peer_message)>>))]
    /\ lpc' = "send"
    /\ UNCHANGED <<req, peer_message, optIdx, sent, stream, nread, lresult, ifaces, routes,
                   events, before, prev, lcalls, budget, optBound, fds, nsrest>>

\* req = NewLink / DelLink (message); action.action(&mut req.header);
\* handle.request(req)?  -- the kernel acts and the transport delivers its frames
LinkSend ==
    /\ lpc = "send"
    /\ \E accepted \in BOOLEAN :
         IF accepted
         THEN LET nl == NetlinkMessage(LinkOp(req.action), ActionFlags(req.action), message, "")
                  k  == KernelLink(ifaces, nl, fds["main"])
              IN  /\ sent' = Append(sent, nl)
                  /\ ifaces' = k.tbl
                  /\ \E st \in Streams(k.verdict, nl.flags) : stream' = st
                  /\ lpc' = "read"
                  /\ UNCHANGED lresult
         ELSE /\ lresult' = Err("RequestFailed", "")
              /\ lpc' = "idle"
              /\ UNCHANGED <<sent, ifaces, stream>>
    /\ UNCHANGED <<req, message, peer_message, optIdx, nread, routes, events, before, prev,
                   lcalls, budget, optBound, fds, nsrest>>

\* if let NetlinkPayload::Error(err) = message.payload
FrameIsErrorNever(f) == FALSE

FrameIsError(f) == f.t = "Error"

\* while let Some(message) = response.next().await { if Error(err) { return Err } } Ok(())
\* stream is what the transport delivers; the first nread frames of it have been read
ReadLoop(at) ==
    /\ lpc = at
    /\ IF nread = Len(stream)
       THEN /\ lresult' = Ok
            /\ lpc' = "idle"
            /\ UNCHANGED nread
       ELSE /\ nread' = nread + 1
            /\ IF FrameIsError(stream[nread + 1])
               THEN /\ lresult' = Err("NetlinkError", stream[nread + 1].code)
                    /\ lpc' = "idle"
               ELSE UNCHANGED <<lresult, lpc>>
    /\ UNCHANGED <<req, message, peer_message, optIdx, sent, stream, ifaces, routes, events,
                   before, prev, lcalls, budget, optBound, fds, nsrest>>

LinkRead == ReadLoop("read")

\* ------------------------------------------------------------------ IPRoute::execute
IPRouteExecute ==
    /\ lpc = "idle"
    /\ lcalls < budget
    /\ \E r \in RouteRequests : Execute(r)

RouteSend ==
    /\ lpc = "rsend"
    /\ \E accepted \in BOOLEAN :
         IF accepted
         THEN LET nl == NetlinkMessage(RouteOp(req.action), RouteFlags(req.action),
                                       DefaultLinkMessage, req.msg)
                  k  == KernelRoute(routes, nl)
              IN  /\ sent' = Append(sent, nl)
                  /\ routes' = k.tbl
                  /\ \E st \in Streams(k.verdict, nl.flags) : stream' = st
                  /\ lpc' = "rread"
                  /\ UNCHANGED lresult
         ELSE /\ lresult' = Err("RequestFailed", "")
              /\ lpc' = "idle"
              /\ UNCHANGED <<sent, routes, stream>>
    /\ UNCHANGED <<req, message, peer_message, optIdx, nread, ifaces, events, before, prev,
                   lcalls, budget, optBound, fds, nsrest>>

RouteRead == ReadLoop("rread")

\* ------------------------------------------------------------------ ip_net_ns_del
\* umount2(netns_path, MNT_DETACH) can succeed only on a reference that is mounted
UmountOutcomes(n) == IF n \in nsmounted THEN BOOLEAN ELSE {FALSE}

\* unlink(netns_path) can succeed only on a file that exists and is no mount point
UnlinkOutcomes(n) == IF n \in nsfiles /\ n \notin nsmounted THEN BOOLEAN ELSE {FALSE}

\* the interfaces once the reference of namespace n is unmounted: a namespace that no
\* task is in goes away with its interfaces
AfterNsUmount(tbl, n) ==
    IF \E t \in Tasks : pc[t] # "none" /\ netns[t] = n THEN tbl
    ELSE {r \in tbl : r.ns # n}

\* result of ip_net_ns_del: the umount failure is printed, the unlink failure returned
DelResult(umountOk, unlinkOk) == IF unlinkOk THEN "Ok" ELSE "Err"

\* the tables of execute calls, but the interfaces
linkidle == <<lpc, req, message, peer_message, optIdx, sent, stream, nread, lresult,
              routes, events, before, prev, lcalls, budget, optBound>>

CallIpNetNsDel(n) ==
    /\ pc["main"] = "idle"
    /\ calls < MaxCalls
    /\ calls' = calls + 1
    /\ delprev' = [fn |-> op["main"].fn, ns |-> op["main"].ns, result |-> result,
                   exit |-> exitStatus,
                   workErr |-> \E i \in DOMAIN syslog :
                                  syslog[i].call = "work" /\ ~syslog[i].ok]
    /\ op' = [op EXCEPT !["main"] = [fn |-> "ip_net_ns_del", ns |-> n]]
    /\ pc' = [pc EXCEPT !["main"] = "del_umount"]
    /\ result' = "none"
    /\ syslog' = <<>>
    /\ pre' = MainSnapshot
    /\ exitStatus' = NoStatus
    /\ UNCHANGED <<linkvars, nsmounted, seen, etcdir, added, netns, mntns, mounts, shared,
                   hostShared, fds, nsfiles, curfd, snsres, mflags, switchres>>

DelUmount ==
    /\ pc["main"] = "del_umount"
    /\ \E ok \in UmountOutcomes(op["main"].ns) :
         /\ nsmounted' = IF ok THEN nsmounted \ {op["main"].ns} ELSE nsmounted
         /\ ifaces' = IF ok THEN AfterNsUmount(ifaces, op["main"].ns) ELSE ifaces
         /\ added' = IF ok THEN added \ {op["main"].ns} ELSE added
         /\ syslog' = Logged("main", "umount_ns", ok)
    /\ pc' = [pc EXCEPT !["main"] = "del_unlink"]
    /\ UNCHANGED <<linkidle, seen, delprev, etcdir, op, netns, mntns, mounts, shared,
                   hostShared, fds, nsfiles, curfd, snsres, mflags, switchres, exitStatus,
                   result, pre, calls>>

DelUnlink ==
    /\ pc["main"] = "del_unlink"
    /\ \E ok \in UnlinkOutcomes(op["main"].ns) :
         /\ nsfiles' = IF ok THEN nsfiles \ {op["main"].ns} ELSE nsfiles
         /\ result' = DelResult(syslog[Len(syslog)].ok, ok)
         /\ syslog' = Logged("main", "unlink", ok)
    /\ pc' = [pc EXCEPT !["main"] = "idle"]
    /\ UNCHANGED <<linkvars, lifevars, op, netns, mntns, mounts, shared, hostShared, fds,
                   curfd, snsres, mflags, switchres, exitStatus, pre, calls>>

\* ------------------------------------------------------------------ ip_net_ns_add
\* exit status of the child: exit(1) when child_process or unshare_processing failed
AddExitCodeAlwaysZero(ok) == 0

AddExitCode(ok) == IF ok THEN 0 ELSE 1

\* NetworkNamespace::child_process creates the reference file, and fails if it exists
ChildProcessOutcomes(n) == IF n \in nsfiles THEN {FALSE} ELSE BOOLEAN

IpNetNsAddFork(n) ==
    /\ pc["main"] = "idle"
    /\ calls < MaxCalls
    /\ calls' = calls + 1
    /\ pre' = MainSnapshot
    /\ exitStatus' = NoStatus
    /\ \E ok \in BOOLEAN :
         IF ok
         THEN /\ pc' = [pc EXCEPT !["main"] = "wait", !["child"] = "add_child"]
              /\ op' = [op EXCEPT !["main"] = [fn |-> "ip_net_ns_add", ns |-> n],
                                  !["child"] = [fn |-> "ip_net_ns_add", ns |-> n]]
              /\ netns' = [netns EXCEPT !["child"] = netns["main"]]
              /\ mntns' = [mntns EXCEPT !["child"] = mntns["main"]]
              /\ fds' = [fds EXCEPT !["child"] = fds["main"]]
              /\ result' = "none"
              /\ syslog' = <<[by |-> "main", call |-> "fork", ok |-> TRUE]>>
         ELSE /\ pc' = pc
              /\ op' = [op EXCEPT !["main"] = [fn |-> "ip_net_ns_add", ns |-> n]]
              /\ result' = "Err"
              /\ syslog' = <<[by |-> "main", call |-> "fork", ok |-> FALSE]>>
              /\ UNCHANGED <<netns, mntns, fds>>
    /\ UNCHANGED <<linkvars, lifevars, mounts, shared, hostShared, nsfiles, curfd, snsres,
                   mflags, switchres>>

\* NetworkNamespace::child_process(ns_name), Err => exit(1)
AddChildProcess ==
    /\ pc["child"] = "add_child"
    /\ \E ok \in ChildProcessOutcomes(op["child"].ns) :
         /\ nsfiles' = IF ok THEN nsfiles \cup {op["child"].ns} ELSE nsfiles
         /\ pc' = [pc EXCEPT !["child"] = IF ok THEN "add_unshare" ELSE "exited"]
         /\ exitStatus' = IF ok THEN exitStatus ELSE <<AddExitCode(FALSE)>>
         /\ syslog' = Logged("child", "child_process", ok)
    /\ UNCHANGED <<linkvars, lifevars, op, netns, mntns, mounts, shared, hostShared, fds,
                   curfd, snsres, mflags, switchres, result, pre, calls>>

\* NetworkNamespace::unshare_processing(netns_path): a new network namespace, holding a
\* loopback only, is created and mounted on the reference file; Ok => exit(0), else exit(1)
AddUnshareProcessing ==
    /\ pc["child"] = "add_unshare"
    /\ \E ok \in BOOLEAN, cleaned \in BOOLEAN :
         /\ ok => cleaned
         /\ netns' = IF ok THEN [netns EXCEPT !["child"] = op["child"].ns] ELSE netns
         /\ nsmounted' = IF ok THEN nsmounted \cup {op["child"].ns} ELSE nsmounted
         /\ ifaces' = IF ok THEN ifaces \cup {Link("lo", op["child"].ns, NoPeer)} ELSE ifaces
         /\ nsfiles' = IF ~ok /\ cleaned THEN nsfiles \ {op["child"].ns} ELSE nsfiles
         /\ added' = IF ok THEN added \cup {op["child"].ns} ELSE added
         /\ exitStatus' = <<AddExitCode(ok)>>
         /\ syslog' = Logged("child", "unshare_processing", ok)
    /\ pc' = [pc EXCEPT !["child"] = "exited"]
    /\ UNCHANGED <<linkidle, seen, delprev, etcdir, op, mntns, mounts, shared, hostShared,
                   fds, curfd, snsres, mflags, switchres, result, pre, calls>>

\* new_connection() and get_links(handle) on the caller's thread
GetLinks ==
    /\ pc["main"] = "idle"
    /\ seen["main"] # Enumerated("main")
    /\ seen' = [seen EXCEPT !["main"] = Enumerated("main")]
    /\ UNCHANGED <<nsvars, linkvars, nsmounted, delprev, etcdir, added>>

\* ------------------------------------------------------------------ thread_net_ns_exec
\* set_net_ns(ns_name)?; Ok(f())  -- where the spawned thread goes on after set_net_ns
ThreadAfterSetNetNsIgnored(r) == "twork"

ThreadAfterSetNetNs(r) == IF r = "Ok" THEN "twork" ELSE "tdone"

\* the network namespace whose devices a sysfs mount shows: that of the task that mounted
\* it (the host's for the host's own /sys, the named one for the mount of netns_switch)
SysOwner(m) == IF m.source = "sysfs" THEN "host" ELSE m.source

\* read_dir("/sys/class/net/") by task t
SysClassNet(t) ==
    {r.name : r \in {x \in ifaces :
                       \E m \in mounts[mntns[t]] : m.target = "/sys" /\ SysOwner(m) = x.ns}}

\* std::thread::spawn(|| { ... }): the caller gets the JoinHandle at once
ThreadNetNsExec(t, n) ==
    /\ pc["main"] = "idle"
    /\ pc[t] = "none"
    /\ pc' = [pc EXCEPT ![t] = "sns_open"]
    /\ op' = [op EXCEPT ![t] = [fn |-> "thread_net_ns_exec", ns |-> n]]
    /\ syslog' = Logged("main", "spawn", TRUE)
    /\ UNCHANGED <<linkvars, lifevars, netns, mntns, mounts, shared, hostShared, fds, nsfiles,
                   curfd, snsres, mflags, switchres, exitStatus, result, pre, calls>>

ThreadSetNetNsReturn(t) ==
    /\ t \in Threads
    /\ pc[t] = "sns_ret"
    /\ pc' = [pc EXCEPT ![t] = ThreadAfterSetNetNs(snsres[t])]
    /\ UNCHANGED <<linkvars, lifevars, op, netns, mntns, mounts, shared, hostShared, fds,
                   nsfiles, curfd, snsres, mflags, switchres, exitStatus, result, syslog, pre,
                   calls>>

\* f() on the spawned thread: here it opens a connection and enumerates the links
ThreadWork(t) ==
    /\ t \in Threads
    /\ pc[t] = "twork"
    /\ seen' = [seen EXCEPT ![t] = Enumerated(t)]
    /\ syslog' = Logged(t, "work", TRUE)
    /\ pc' = [pc EXCEPT ![t] = "tdone"]
    /\ UNCHANGED <<linkvars, nsmounted, delprev, etcdir, added, op, netns, mntns, mounts,
                   shared, hostShared, fds, nsfiles, curfd, snsres, mflags, switchres,
                   exitStatus, result, pre, calls>>

\* ------------------------------------------------------------------ specifications
\* the host's mount table: /sys is mounted, read-only or not
HostMounts(ro) == [m \in MntIds |-> IF m = "host_mnt" THEN {SysMount("sysfs", ro)} ELSE {}]

\* the namespace engine before any call
InitNs ==
    /\ pc = [t \in Tasks |-> IF t = "main" THEN "idle" ELSE "none"]
    /\ op = [t \in Tasks |-> NoOp]
    /\ netns = [t \in Tasks |-> "host"]
    /\ mntns = [t \in Tasks |-> "host_mnt"]
    /\ shared = FALSE
    /\ fds = [t \in Tasks |-> {}]
    /\ curfd = [t \in Tasks |-> NoFd]
    /\ snsres = [t \in Tasks |-> "none"]
    /\ mflags = {}
    /\ switchres = "none"
    /\ exitStatus = NoStatus
    /\ result = "none"
    /\ syslog = <<>>
    /\ pre = [netns |-> "host", mntns |-> "host_mnt", mounts |-> {}]
    /\ calls = 0
    /\ seen = [t \in Tasks |-> NoListing]
    /\ delprev = NoCall
    /\ etcdir = NoDir
    /\ added = {}

\* no execute call has been made
InitLinkIdle ==
    /\ lpc = "idle"
    /\ req = NoReq
    /\ message = DefaultLinkMessage
    /\ peer_message = DefaultLinkMessage
    /\ optIdx = 0
    /\ sent = <<>>
    /\ stream = <<>>
    /\ nread = 0
    /\ lresult = NoResult
    /\ events = <<>>
    /\ before = NoPrev.before
    /\ prev = NoPrev
    /\ lcalls = 0

\* the interfaces a host may have when a call is made
InitTables ==
    {{}, {Link("v0", "host", NoPeer)}, {Link("v1", "host", NoPeer)},
     {Link("v0", "host", NoPeer), Link("v1", "host", NoPeer)},
     {Link("v0", "host", [name |-> "v1", ns |-> "host"]),
      Link("v1", "host", [name |-> "v0", ns |-> "host"])}}

Init ==
    /\ InitNs
    /\ \E ro \in BOOLEAN : mounts = HostMounts(ro)
    /\ hostShared \in BOOLEAN
    /\ nsfiles \in SUBSET NsNames
    /\ nsmounted = nsfiles
    /\ InitLinkIdle
    /\ ifaces = {}
    /\ routes = {}
    /\ budget = 0
    /\ optBound = 0

Next ==
    \/ \E n \in NsNames : CallSetNetNs(n)
    \/ \E n \in NsNames : IpNetNsExecFork(n)
    \/ \E t \in Tasks : SetNetNsOpen(t)
    \/ \E t \in Tasks : SetNetNsSetns(t)
    \/ \E t \in Tasks : SetNetNsClose(t)
    \/ ReturnSetNetNs
    \/ NetnsSwitchSetNetNs
    \/ NetnsSwitchUnshare
    \/ NetnsSwitchRslave
    \/ NetnsSwitchUmountSys
    \/ NetnsSwitchMountSys
    \/ BindEtc
    \/ ChildAfterSwitch
    \/ ChildWork
    \/ ParentWait

Spec == Init /\ [][Next]_vars

\* one execute call, of any request, on any host
InitLink ==
    /\ InitNs
    /\ mounts = HostMounts(FALSE)
    /\ hostShared = TRUE
    /\ nsfiles \in SUBSET LinkNsNames
    /\ nsmounted = nsfiles
    /\ InitLinkIdle
    /\ ifaces \in InitTables
    /\ routes = {"r1"}
    /\ budget = 1
    /\ optBound = MaxOpts

NextLink ==
    \/ IPLinkExecute
    \/ LinkOptions
    \/ LinkType
    \/ VethOptions
    \/ VethFinish
    \/ LinkSend
    \/ LinkRead
    \/ IPRouteExecute
    \/ RouteSend
    \/ RouteRead

SpecLink == InitLink /\ [][NextLink]_vars

\* several execute calls in a row, of requests of at most MaxPairOpts options
InitPair ==
    /\ InitNs
    /\ mounts = HostMounts(FALSE)
    /\ hostShared = TRUE
    /\ nsfiles = LinkNsNames
    /\ nsmounted = nsfiles
    /\ InitLinkIdle
    /\ ifaces \in InitTables
    /\ routes = {"r1"}
    /\ budget = MaxCalls
    /\ optBound = MaxPairOpts

SpecPair == InitPair /\ [][NextLink]_vars

\* the interfaces of a host: a loopback and others
HostTables ==
    {{Link("lo", "host", NoPeer), Link("eth0", "host", NoPeer)},
     {Link("lo", "host", NoPeer), Link("v0", "host", [name |-> "v1", ns |-> "host"]),
      Link("v1", "host", [name |-> "v0", ns |-> "host"])}}

\* the life cycle of a namespace: add, enter, exec and delete calls of one caller; a
\* reference file may be a leftover with no namespace mounted on it
InitLife ==
    /\ InitNs
    /\ mounts = HostMounts(FALSE)
    /\ hostShared = TRUE
    /\ nsfiles \in SUBSET NsNames
    /\ nsmounted \in SUBSET nsfiles
    /\ InitLinkIdle
    /\ \E h \in HostTables, used \in SUBSET nsmounted :
         ifaces = h \cup {Link("lo", n, NoPeer) : n \in nsmounted}
                    \cup {Link("eth1", n, NoPeer) : n \in used}
    /\ routes = {}
    /\ budget = 0
    /\ optBound = 0

NextLife ==
    \/ \E n \in NsNames : CallSetNetNs(n)
    \/ \E n \in NsNames : IpNetNsExecFork(n)
    \/ \E n \in NsNames : IpNetNsAddFork(n)
    \/ \E n \in NsNames : CallIpNetNsDel(n)
    \/ \E t \in Tasks : SetNetNsOpen(t)
    \/ \E t \in Tasks : SetNetNsSetns(t)
    \/ \E t \in Tasks : SetNetNsClose(t)
    \/ ReturnSetNetNs
    \/ NetnsSwitchSetNetNs
    \/ NetnsSwitchUnshare
    \/ NetnsSwitchRslave
    \/ NetnsSwitchUmountSys
    \/ NetnsSwitchMountSys
    \/ BindEtc
    \/ ChildAfterSwitch
    \/ ChildWork
    \/ ParentWait
    \/ AddChildProcess
    \/ AddUnshareProcessing
    \/ DelUmount
    \/ DelUnlink
    \/ GetLinks

SpecLife == InitLife /\ [][NextLife]_vars

\* thread_net_ns_exec calls for two threads, running beside the caller's own thread
InitThreads ==
    /\ InitNs
    /\ mounts = HostMounts(FALSE)
    /\ hostShared = TRUE
    /\ nsfiles \in SUBSET NsNames
    /\ nsmounted \in SUBSET nsfiles
    /\ InitLinkIdle
    /\ \E h \in HostTables : ifaces = h \cup {Link("lo", n, NoPeer) : n \in nsmounted}
    /\ routes = {}
    /\ budget = 0
    /\ optBound = 0

NextThreads ==
    \/ \E t \in Threads, n \in NsNames : ThreadNetNsExec(t, n)
    \/ \E t \in Threads : SetNetNsOpen(t)
    \/ \E t \in Threads : SetNetNsSetns(t)
    \/ \E t \in Threads : SetNetNsClose(t)
    \/ \E t \in Threads : ThreadSetNetNsReturn(t)
    \/ \E t \in Threads : ThreadWork(t)
    \/ GetLinks

SpecThreads == InitThreads /\ [][NextThreads]_vars

\* options() on one message: execute has named the message of a request whose options
\* are any sequence of at most MaxOptSeq options, and applies them
InitOpts ==
    /\ InitNs
    /\ mounts = HostMounts(FALSE)
    /\ hostShared = TRUE
    /\ nsfiles \in SUBSET LinkNsNames
    /\ nsmounted = nsfiles
    /\ lpc = "opts"
    /\ \E o \in SeqsUpTo(Opts, MaxOptSeq) : req = IPLink("Set", "v0", o, NoKind)
    /\ message = Name(req.name, DefaultLinkMessage)
    /\ peer_message = DefaultLinkMessage
    /\ optIdx = 0
    /\ sent = <<>>
    /\ stream = <<>>
    /\ nread = 0
    /\ lresult = NoResult
    /\ events = <<>>
    /\ ifaces \in InitTables
    /\ routes = {"r1"}
    /\ before = [ifaces |-> ifaces, routes |-> routes, fds |-> {}]
    /\ prev = NoPrev
    /\ lcalls = 1
    /\ budget = 1
    /\ optBound = MaxOptSeq

NextOpts == LinkOptions

SpecOpts == InitOpts /\ [][NextOpts]_vars

\* ------------------------------------------------------------------ claims: namespace engine
HasEntry(c, ok) == \E i \in DOMAIN syslog : syslog[i].call = c /\ syslog[i].ok = ok

\* main's last call was ip_net_ns_exec and it has returned
ExecReturned == pc["main"] = "idle" /\ op["main"].fn = "ip_net_ns_exec" /\ result # "none"

\* the calls that change a namespace or a mount table
NsCalls == {"setns", "unshare", "mount_rslave", "umount_sys", "mount_sys", "mount_bind"}

\* C1: ip_net_ns_exec follows the fork state machine. In the child the work starts only
\* after netns_switch has succeeded (every fatal step before it succeeded and the child is
\* in the named network namespace and in its own mount namespace); the child exits 1 with
\* no work run when the switch fails, 0 when the work returns Ok and 1 when it returns Err;
\* the parent returns Ok exactly when the child exited 0, that is exactly when the switch
\* and the work both succeeded.
C1_ForkStateMachine ==
    /\ pc["child"] = "work" =>
         /\ switchres = "Ok"
         /\ netns["child"] = op["child"].ns
         /\ mntns["child"] = "child_mnt"
    /\ \A i \in DOMAIN syslog : syslog[i].call = "work" =>
         /\ \E j \in 1..(i - 1) : syslog[j] = [by |-> "child", call |-> "mount_sys", ok |-> TRUE]
         /\ \A j \in 1..(i - 1) :
              syslog[j].call \in {"open", "setns", "close", "unshare", "mount_rslave", "mount_sys"}
                 => syslog[j].ok
    /\ pc["child"] = "exited" =>
         /\ exitStatus = IF switchres = "Ok" /\ HasEntry("work", TRUE) THEN <<0>> ELSE <<1>>
         /\ switchres # "Ok" => ~HasEntry("work", TRUE) /\ ~HasEntry("work", FALSE)
    /\ ExecReturned =>
         /\ result = "Ok" <=> exitStatus = <<0>>
         /\ result = "Ok" <=> (switchres = "Ok" /\ HasEntry("work", TRUE))

\* C1 witness: a call returned Ok after the switch and the work both succeeded
C1_Witness == ExecReturned /\ result = "Ok" /\ HasEntry("work", TRUE) /\ HasEntry("mount_sys", TRUE)

\* C2: during and after every ip_net_ns_exec, whatever its outcome, the calling process is
\* in the network namespace and the mount namespace it was in when the call started, its
\* mount table is the one it had then, and every setns, unshare, mount and umount of the
\* call was issued by the forked child.
C2_CallerUntouched ==
    op["main"].fn = "ip_net_ns_exec" =>
      /\ netns["main"] = pre.netns
      /\ mntns["main"] = pre.mntns
      /\ mounts[mntns["main"]] = pre.mounts
      /\ \A i \in DOMAIN syslog : syslog[i].call \in NsCalls => syslog[i].by = "child"

\* C2 witness: a call returned on a host whose root mount is shared, after the child
\* unmounted /sys, mounted a fresh sysfs and bind-mounted an /etc file
C2_Witness ==
    /\ ExecReturned
    /\ hostShared
    /\ HasEntry("umount_sys", TRUE)
    /\ HasEntry("mount_sys", TRUE)
    /\ HasEntry("mount_bind", TRUE)

\* C3: set_net_ns closes the descriptor it opened on every exit path: a process holds an
\* open descriptor only between the open and the close of a running set_net_ns, so when
\* set_net_ns has returned (Ok, or Err from setns or from close) and after any number of
\* calls no descriptor is open.
C3_DescriptorClosed ==
    \A t \in Tasks :
      pc[t] \notin {"sns_setns", "sns_close_ok", "sns_close_err"} => fds[t] = {}

\* C3 witness: main has made all its calls, the last a set_net_ns whose setns step failed
C3_Witness ==
    /\ pc["main"] = "idle"
    /\ calls = MaxCalls
    /\ op["main"].fn = "set_net_ns"
    /\ snsres["main"] = "ErrSetns"
    /\ HasEntry("open", TRUE)

\* ------------------------------------------------------------------ claims: link and route requests
\* the last execute call has returned
Returned == lpc = "idle" /\ lresult.status # "none"

\* the options of the running call in the order execute applies them
AllOpts == req.options \o req.link_type.options

\* the options that resolve a reference and append an attribute
AttrOpts(q) == SelectSeq(q, LAMBDA o : o.t \in {"Master", "NetNS"})

UpDownOpts(q) == SelectSeq(q, LAMBDA o : o.t \in {"Up", "Down"})

\* header a message is to have after a sequence of options: the mask once an Up or Down
\* occurs, the flag of the last of them
ExpectedMask(q) == IF Len(UpDownOpts(q)) = 0 THEN 0 ELSE IFF_UP

ExpectedFlags(q) ==
    LET ud == UpDownOpts(q)
    IN  IF Len(ud) = 0 THEN 0 ELSE IF ud[Len(ud)].t = "Up" THEN IFF_UP ELSE 0

\* C4: once IPLink::execute has returned, with Ok or with any error, no descriptor that a
\* NetNS option of the call opened is still open.
C4_NetNsFdClosed ==
    (Returned /\ req.type = "link") =>
        \A i \in DOMAIN events :
            (events[i].ev = "open" /\ events[i].ok) => events[i].fd \notin FdNums(fds["main"])

\* C5: after Veth::link_type has succeeded, the parent message's header flags and
\* change-mask are those the IPLink options gave it, the only attribute added to the parent
\* is the Info block (Kind=Veth, Data=Peer), and the Up/Down bits and the Master/NetNsFd
\* attributes of the peer options are in the nested peer message.
C5_PeerOptionsOnPeer ==
    (lpc = "send" /\ req.link_type.kind = "veth") =>
        LET outer == req.options
            po    == req.link_type.options
            peer  == MsgPeer(message)
        IN  /\ message.flags = ExpectedFlags(outer)
            /\ message.change_mask = ExpectedMask(outer)
            /\ Len(message.nlas) = 1 + Len(AttrOpts(outer)) + 1
            /\ message.nlas[Len(message.nlas)].t = "Info"
            /\ MsgKind(message) = "veth"
            /\ peer.flags = ExpectedFlags(po)
            /\ peer.change_mask = ExpectedMask(po)
            /\ Len(peer.nlas) = 1 + Len(AttrOpts(po))

\* C6: an execute call (link or route) hands the transport at most one request, and
\* exactly one once it reads responses. When the request was handed over, the call returns
\* Err with the code of the first error frame of the response stream, having read no frame
\* after it, or Ok when the stream has no error frame, having read all of it; no other
\* result comes out of the response stream.
C6_ResponseStream ==
    /\ Len(sent) <= 1
    /\ lpc \in {"read", "rread"} => Len(sent) = 1
    /\ (Returned /\ lresult.kind = "RequestFailed") => (sent = <<>> /\ nread = 0)
    /\ (Returned /\ lresult.kind \notin {"NotFound", "Open", "RequestFailed"}) =>
         /\ Len(sent) = 1
         /\ LET errs == {i \in DOMAIN stream : stream[i].t = "Error"}
            IN  IF errs = {}
                THEN lresult = Ok /\ nread = Len(stream)
                ELSE LET f == CHOOSE i \in errs : \A j \in errs : i <= j
                     IN  lresult = Err("NetlinkError", stream[f].code) /\ nread = f

\* C6 witness: a call returned the code of an error frame that came after a data frame,
\* leaving a later error frame with another code unread
C6_Witness ==
    /\ Returned
    /\ lresult.kind = "NetlinkError"
    /\ nread = 2
    /\ Len(stream) = 3
    /\ stream[3].t = "Error"
    /\ stream[3].code # lresult.code

\* C7: when applying an option of IPLink.options or a peer option of Veth::link_type
\* fails, execute returns that error at once: the failed lookup or open is the last one
\* of the call, the lookups and opens made are those of the options up to the failing one
\* in order, nothing is handed to the transport and the kernel's interfaces are untouched.
C7_OptionFailureAborts ==
    /\ \A i \in DOMAIN events :
         ~events[i].ok =>
            /\ i = Len(events)
            /\ lpc = "idle"
            /\ lresult = Err(IF events[i].ev = "lookup" THEN "NotFound" ELSE "Open", events[i].arg)
            /\ sent = <<>>
            /\ nread = 0
            /\ ifaces = before.ifaces
    /\ lresult.kind \in {"NotFound", "Open"} => (Len(events) > 0 /\ ~events[Len(events)].ok)
    /\ Len(events) <= Len(AttrOpts(AllOpts))
    /\ \A i \in DOMAIN events :
         /\ events[i].arg = AttrOpts(AllOpts)[i].arg
         /\ events[i].ev = IF AttrOpts(AllOpts)[i].t = "Master" THEN "lookup" ELSE "open"

\* C7 witness: an option failed while a later option that opens or looks up was pending
C7_Witness ==
    /\ Returned
    /\ lresult.kind \in {"NotFound", "Open"}
    /\ Len(events) < Len(AttrOpts(AllOpts))

\* C8: the operation code and the header flags of every request are a function of the
\* action alone: link Add is NewLink with REQUEST|ACK|EXCL|CREATE, link Set is NewLink and
\* link Delete is DelLink with REQUEST|ACK; route Add is NewRoute with
\* REQUEST|ACK|EXCL|CREATE and route Del is DelRoute with REQUEST|ACK.
C8_HeaderFlags ==
    \A i \in DOMAIN sent :
       IF req.type = "link"
       THEN /\ sent[i].op = IF req.action = "Delete" THEN "DelLink" ELSE "NewLink"
            /\ sent[i].flags = IF req.action = "Add"
                               THEN NLM_F_REQUEST + NLM_F_ACK + NLM_F_EXCL + NLM_F_CREATE
                               ELSE NLM_F_REQUEST + NLM_F_ACK
       ELSE /\ sent[i].op = IF req.action = "Del" THEN "DelRoute" ELSE "NewRoute"
            /\ sent[i].flags = IF req.action = "Add"
                               THEN NLM_F_REQUEST + NLM_F_ACK + NLM_F_EXCL + NLM_F_CREATE
                               ELSE NLM_F_REQUEST + NLM_F_ACK

\* C8 witness: a Set request of a veth link with options, two of them Up and a NetNS, was sent
C8_Witness ==
    /\ Len(sent) = 1
    /\ req.type = "link"
    /\ req.action = "Set"
    /\ req.link_type.kind = "veth"
    /\ \E i \in DOMAIN AllOpts : AllOpts[i].t = "Up"
    /\ \E i \in DOMAIN AllOpts : AllOpts[i].t = "NetNS"

\* an Add of a link with a kind and no options of the link itself, for a name the host did
\* not have, was followed by a Delete of that name, the transport took both requests and
\* both calls returned
AddThenDelete ==
    /\ Returned
    /\ req = IPLink("Delete", req.name, <<>>, NoKind)
    /\ prev.req.type = "link"
    /\ prev.req.action = "Add"
    /\ prev.req.name = req.name
    /\ prev.req.options = <<>>
    /\ prev.req.link_type.kind # "none"
    /\ ~Has(prev.before.ifaces, req.name, "host")
    /\ Len(prev.sent) = 1
    /\ Len(sent) = 1

\* the peer name of a veth Add is another name than the link's, and no namespace had an
\* interface of that name
PeerNameFree ==
    prev.req.link_type.kind = "veth" =>
        /\ prev.req.link_type.peer_name # prev.req.name
        /\ \A l \in prev.before.ifaces : l.name # prev.req.link_type.peer_name

\* C9: for every link name not present beforehand, Add of the name with a kind and then
\* Delete of the name both succeed and leave the interfaces as they were before the pair,
\* with neither the name nor a veth's peer name present. Stated for the pairs whose
\* requests both reached the kernel and whose veth peer name was free as well.
C9_RoundTrip ==
    (AddThenDelete /\ PeerNameFree) =>
        /\ prev.result = Ok
        /\ lresult = Ok
        /\ ifaces = prev.before.ifaces
        /\ ~Has(ifaces, req.name, "host")
        /\ prev.req.link_type.kind = "veth" => ~Has(ifaces, prev.req.link_type.peer_name, "host")

\* C10: an Add for a name the host already has never returns Ok and leaves the interfaces
\* as they were, and when the request reached the kernel the error is the protocol error
\* EEXIST; a Delete for a name the host does not have never returns Ok, leaves the
\* interfaces as they were, and returns the kernel's error code when the request reached it.
C10_ExistsAndMissing ==
    (Returned /\ req.type = "link") =>
        /\ (req.action = "Add" /\ Has(before.ifaces, req.name, "host")) =>
              /\ lresult.status = "Err"
              /\ ifaces = before.ifaces
              /\ Len(sent) = 1 => lresult = Err("NetlinkError", "EEXIST")
        /\ (req.action = "Delete" /\ ~Has(before.ifaces, req.name, "host")) =>
              /\ lresult.status = "Err"
              /\ ifaces = before.ifaces
              /\ Len(sent) = 1 => (lresult = Err("NetlinkError", "ENODEV")
                                   /\ stream[nread] = ErrorFrame("ENODEV"))

\* C10 witness: an Add of an existing name, with a kind and options that all applied,
\* came back with EEXIST
C10_Witness ==
    /\ Returned
    /\ req.type = "link"
    /\ req.action = "Add"
    /\ Has(before.ifaces, req.name, "host")
    /\ req.link_type.kind = "veth"
    /\ Len(req.options) > 0
    /\ lresult = Err("NetlinkError", "EEXIST")

\* the options that options() has applied to the message of the running call
Applied == IF lpc = "kind" THEN req.options ELSE SubSeq(req.options, 1, optIdx)

\* C11: for every option sequence applied to one link message by options(), the
\* change-mask up bit is set exactly when the sequence has an Up or a Down, and the flags up
\* bit is that of the last Up/Down (set for Up, cleared for Down), wherever Master and
\* NetNS options stand in the sequence; Down after Up leaves the flag cleared and the mask
\* set; no other header bit changes.
C11_UpDownFold ==
    /\ message.change_mask = ExpectedMask(Applied)
    /\ message.flags = ExpectedFlags(Applied)
    /\ message.change_mask \in {0, IFF_UP}
    /\ message.flags \in {0, IFF_UP}
    /\ \A i \in 1..Len(Applied), j \in 1..Len(Applied) :
         (i < j /\ Applied[i].t = "Up" /\ Applied[j].t = "Down"
          /\ \A k \in (j + 1)..Len(Applied) : Applied[k].t # "Up")
            => (message.flags = 0 /\ message.change_mask = IFF_UP)

\* C11 witness: Up, Master, Down, NetNS have been applied in that order
C11_Witness ==
    /\ lpc = "kind"
    /\ Len(req.options) = 4
    /\ req.options[1].t = "Up"
    /\ req.options[2].t = "Master"
    /\ req.options[3].t = "Down"
    /\ req.options[4].t = "NetNS"
    /\ message.flags = 0
    /\ message.change_mask = IFF_UP

\* ------------------------------------------------------------------ claims: namespace life cycle
\* main's last call was ip_net_ns_del and it has returned
DelReturned == pc["main"] = "idle" /\ op["main"].fn = "ip_net_ns_del" /\ result # "none"

\* main's running or last call is an ip_net_ns_del of the namespace that its call before,
\* an ip_net_ns_exec, ran failing work in
DelAfterFailedWork ==
    /\ op["main"].fn = "ip_net_ns_del"
    /\ delprev.fn = "ip_net_ns_exec"
    /\ delprev.workErr
    /\ delprev.ns = op["main"].ns

\* a step of an ip_net_ns_exec call: its fork, a step of its child, or its wait
ExecStep ==
    /\ op'["main"].fn = "ip_net_ns_exec"
    /\ calls' # calls \/ pc["main"] = "wait"

\* C12: when ip_net_ns_exec runs failing work in an existing namespace the parent gets Err
\* from a nonzero exit status and the reference file is still there, so that the
\* ip_net_ns_del that follows finds it and returns Ok as soon as its unlink succeeds; no
\* step of any ip_net_ns_exec removes or unmounts a namespace reference.
C12_ExecKeepsNamespace ==
    /\ [](/\ (ExecReturned /\ HasEntry("work", FALSE)) =>
               /\ result = "Err"
               /\ exitStatus = <<1>>
               /\ op["main"].ns \in nsfiles
               /\ op["main"].ns \in nsmounted
          /\ DelAfterFailedWork =>
               /\ delprev.result = "Err"
               /\ delprev.exit = <<1>>
               /\ pc["main"] \in {"del_umount", "del_unlink"} => op["main"].ns \in nsfiles
               /\ DelReturned => (result = "Ok" <=> HasEntry("unlink", TRUE))
               /\ (DelReturned /\ result = "Ok") => op["main"].ns \notin nsfiles)
    /\ [][ExecStep => (nsfiles' = nsfiles /\ nsmounted' = nsmounted)]_vars

\* C12 witness: the delete that followed an ip_net_ns_exec with failing work returned Ok
C12_Witness ==
    /\ DelReturned
    /\ DelAfterFailedWork
    /\ result = "Ok"
    /\ HasEntry("umount_ns", TRUE)

\* the links a task that stayed in the host namespace enumerates
HostListing == {r.name : r \in {x \in ifaces : x.ns = "host"}}

\* C13: after ip_net_ns_add(name) succeeded, a thread that has called set_net_ns(name)
\* successfully and then opened a connection enumerates exactly one link, the loopback of
\* the new namespace, which is not the list a thread in the host namespace enumerates; so
\* does work run through ip_net_ns_exec(name).
C13_FreshNamespaceLinks ==
    /\ (/\ pc["main"] = "idle"
        /\ op["main"].fn = "set_net_ns"
        /\ result = "Ok"
        /\ op["main"].ns \in added
        /\ seen["main"].at = calls) =>
          /\ seen["main"].links = {"lo"}
          /\ Cardinality(seen["main"].links) = 1
          /\ seen["main"].links # HostListing
    /\ (/\ op["child"].fn = "ip_net_ns_exec"
        /\ pc["child"] = "exited"
        /\ op["child"].ns \in added
        /\ seen["child"].at = calls) =>
          /\ seen["child"].links = {"lo"}
          /\ Cardinality(seen["child"].links) = 1
          /\ seen["child"].links # HostListing

\* C13 witness: ip_net_ns_add created ns1, the caller entered it and enumerated its links
C13_Witness ==
    /\ pc["main"] = "idle"
    /\ op["main"].fn = "set_net_ns"
    /\ result = "Ok"
    /\ op["main"].ns \in added
    /\ seen["main"] = [at |-> calls, links |-> {"lo"}]

\* main's last call was set_net_ns and it has returned
SetNetNsReturned == pc["main"] = "idle" /\ op["main"].fn = "set_net_ns" /\ result # "none"

\* C14: set_net_ns is atomic with respect to its result: when it returns Ok the calling
\* thread is in the named network namespace, and when it returns an error (of open, of
\* setns or of close) the thread is in the namespace it was in before the call.
C14_SetNetNsAtomic ==
    SetNetNsReturned =>
        /\ result = "Ok" => netns["main"] = op["main"].ns
        /\ result = "Err" => netns["main"] = pre.netns

\* ------------------------------------------------------------------ claims: thread-only mode
\* C15: thread_net_ns_exec never forks, never unshares the mount namespace and never
\* mounts or unmounts; the work runs on the spawned thread and only after set_net_ns
\* succeeded there; however the spawned threads and the caller interleave, a thread whose
\* set_net_ns succeeded is in its own named namespace, the caller stays in its network
\* namespace, and /sys/class/net read after the switch lists the host's devices.
C15_ThreadOnly ==
    /\ \A i \in DOMAIN syslog :
         /\ syslog[i].call \in {"spawn", "open", "setns", "close", "work"}
         /\ syslog[i].call = "work" =>
              /\ syslog[i].by \in Threads
              /\ snsres[syslog[i].by] = "Ok"
              /\ \E j \in 1..(i - 1) : syslog[j] = [by |-> syslog[i].by, call |-> "setns", ok |-> TRUE]
    /\ netns["main"] = "host"
    /\ \A t \in Tasks : mntns[t] = "host_mnt"
    /\ mounts = HostMounts(FALSE)
    /\ \A t \in Threads :
         /\ pc[t] = "twork" => (snsres[t] = "Ok" /\ netns[t] = op[t].ns)
         /\ (pc[t] = "tdone" /\ snsres[t] = "Ok") =>
              /\ netns[t] = op[t].ns
              /\ seen[t].links = {r.name : r \in {x \in ifaces : x.ns = op[t].ns}}
         /\ (pc[t] = "tdone" /\ snsres[t] # "Ok") => seen[t] = NoListing
         /\ netns[t] \in {"host", op[t].ns}
         /\ pc[t] \in {"twork", "tdone"} => SysClassNet(t) = HostListing

\* C15 witness: both threads ran their work, each in another namespace, while the caller
\* enumerated the host's links in between
C15_Witness ==
    /\ pc["t1"] = "tdone"
    /\ pc["t2"] = "tdone"
    /\ netns["t1"] = "ns1"
    /\ netns["t2"] = LongName
    /\ seen["t1"].links = {"lo"}
    /\ seen["t2"].links = {"lo"}
    /\ seen["main"].links = HostListing
    /\ \E i \in DOMAIN syslog : syslog[i] = [by |-> "t2", call |-> "open", ok |-> TRUE]
         /\ \E j \in (i + 1)..Len(syslog) : syslog[j] = [by |-> "t1", call |-> "setns", ok |-> TRUE]

\* the steps whose failure an operation is to return to its caller
FatalCalls == {"open", "setns", "close", "unshare", "mount_rslave", "mount_sys", "fork",
               "umount_ns", "unlink"}

\* C16: every failing step of a namespace operation (open, setns, close, unshare, root
\* re-slave, /sys mount, fork, and the unmount and unlink of ip_net_ns_del) makes the
\* operation return an error to its immediate caller; only the /etc bind mounts and the
\* /sys detach-unmount fail without one. ip_net_ns_del returns Ok only when the reference
\* was both unmounted and unlinked.
C16_FailuresReturned ==
    /\ SetNetNsReturned =>
         ((\E i \in DOMAIN syslog : syslog[i].call \in FatalCalls /\ ~syslog[i].ok)
             => result = "Err")
    /\ (op["child"].fn = "ip_net_ns_exec" /\ pc["child"] \in {"switch_ret", "work", "exited"}) =>
         ((\E i \in DOMAIN syslog : syslog[i].call \in FatalCalls /\ ~syslog[i].ok)
             => switchres = "Err")
    /\ (pc["main"] = "idle" /\ op["main"].fn \in {"ip_net_ns_exec", "ip_net_ns_add"}
        /\ HasEntry("fork", FALSE)) => result = "Err"
    /\ DelReturned =>
         /\ (\E i \in DOMAIN syslog : syslog[i].call \in FatalCalls /\ ~syslog[i].ok)
               => result = "Err"
         /\ result = "Ok" => (HasEntry("umount_ns", TRUE) /\ HasEntry("unlink", TRUE))

\* ------------------------------------------------------------------ claims: netns_switch
\* the place of a step in the order of netns_switch
StepRank(c) ==
    CASE c = "open" -> 1
      [] c = "setns" -> 2
      [] c = "close" -> 3
      [] c = "unshare" -> 4
      [] c = "mount_rslave" -> 5
      [] c = "umount_sys" -> 6
      [] c = "mount_sys" -> 7
      [] c = "mount_bind" -> 8
      [] c = "work" -> 9
      [] OTHER -> 10

ByChild(i) == syslog[i].by = "child" /\ op["child"].fn = "ip_net_ns_exec"

\* C17: netns_switch runs setns, unshare, the recursive re-slave of /, the detach-unmount
\* of /sys, the mount of a fresh sysfs and the /etc bind mounts in that order; a failure of
\* setns, unshare, the re-slave or the sysfs mount ends it with an error and no later step
\* runs; a failure of the /sys unmount is not fatal and only makes the sysfs mount
\* read-only when the existing /sys is read-only; no mount or unmount is issued before the
\* mount namespace was unshared and the root re-slaved.
C17_SwitchOrder ==
    /\ \A i \in DOMAIN syslog, j \in DOMAIN syslog :
         (ByChild(i) /\ ByChild(j) /\ i < j) =>
            \/ StepRank(syslog[i].call) < StepRank(syslog[j].call)
            \/ syslog[i].call = "mount_bind" /\ syslog[j].call = "mount_bind"
    /\ \A i \in DOMAIN syslog :
         (ByChild(i) /\ ~syslog[i].ok
          /\ syslog[i].call \in {"open", "setns", "close", "unshare", "mount_rslave", "mount_sys"})
            => /\ \A j \in (i + 1)..Len(syslog) : syslog[j].call \in {"close", "exit"}
               /\ pc["child"] \in {"sns_close_err", "sns_ret", "switch_ret", "exited"}
               /\ pc["child"] \in {"switch_ret", "exited"} => switchres = "Err"
    /\ \A i \in DOMAIN syslog :
         (ByChild(i) /\ syslog[i].call \in {"umount_sys", "mount_sys", "mount_bind"}) =>
            \E j \in 1..(i - 1), k \in 1..(i - 1) :
               /\ j < k
               /\ syslog[j] = [by |-> "child", call |-> "unshare", ok |-> TRUE]
               /\ syslog[k] = [by |-> "child", call |-> "mount_rslave", ok |-> TRUE]
    /\ pc["child"] = "mount_sys" =>
         /\ syslog[Len(syslog)].call = "umount_sys"
         /\ "MS_RDONLY" \in mflags =>
               /\ ~syslog[Len(syslog)].ok
               /\ \E r \in mounts[mntns["child"]] : r.target = "/sys" /\ r.ro
         /\ mflags \subseteq {"MS_RDONLY"}
    /\ (pc["child"] = "work" /\ HasEntry("umount_sys", FALSE)) => switchres = "Ok"

\* C17 witness: the /sys unmount failed on a read-only /sys, the fresh sysfs was mounted
\* read-only, an /etc file was bound and the work started
C17_Witness ==
    /\ pc["child"] = "work"
    /\ HasEntry("umount_sys", FALSE)
    /\ SysMount(op["child"].ns, TRUE) \in mounts["child_mnt"]
    /\ HasEntry("mount_bind", TRUE)
    /\ HasEntry("mount_bind", FALSE)

\* the child of an ip_net_ns_exec is past bind_etc
PastBindEtc ==
    /\ op["child"].fn = "ip_net_ns_exec"
    /\ pc["child"] \in {"switch_ret", "work", "exited"}
    /\ HasEntry("mount_sys", TRUE)

BindAttempts(ok) == SelectSeq(syslog, LAMBDA x : x.call = "mount_bind" /\ x.ok = ok)

BindMounts == {r \in mounts["child_mnt"] : r.fstype = "none"}

\* C18: bind_etc never makes netns_switch fail; it mounts nothing when the namespace name
\* is longer than 255 or /etc/netns/<name>/ cannot be read, and otherwise attempts one bind
\* mount of /etc/netns/<name>/<file> onto /etc/<file> for every entry of the directory,
\* whether or not the mount of another entry failed.
C18_BindEtcBestEffort ==
    PastBindEtc =>
        /\ switchres = "Ok"
        /\ NameLen(op["child"].ns) > 255 => ~etcdir.exists
        /\ ~etcdir.exists => (Len(BindAttempts(TRUE)) + Len(BindAttempts(FALSE)) = 0
                              /\ BindMounts = {})
        /\ etcdir.exists =>
             /\ Len(BindAttempts(TRUE)) + Len(BindAttempts(FALSE)) = Cardinality(etcdir.files)
             /\ Len(BindAttempts(TRUE)) = Cardinality(BindMounts)
             /\ \A r \in BindMounts : \E f \in etcdir.files :
                  /\ r.source = "/etc/netns/" \o op["child"].ns \o "/" \o f
                  /\ r.target = "/etc/" \o f

\* C18 witness: of the two files of the directory one was bound and the other's mount
\* failed, and netns_switch returned Ok
C18_Witness ==
    /\ pc["child"] = "switch_ret"
    /\ switchres = "Ok"
    /\ etcdir = Dir(EtcFileNames)
    /\ Len(BindAttempts(TRUE)) = 1
    /\ Len(BindAttempts(FALSE)) = 1

\* ---------------------------------------------------------------------------------------
\* claims: the opens of namespace reference files
\* ---------------------------------------------------------------------------------------

\* a failed open of a NetNS option is the last thing the call did, and the call returned
\* the open's error
OpenFailureAborts ==
    \A i \in DOMAIN events :
        (events[i].ev = "open" /\ ~events[i].ok) =>
            /\ i = Len(events)
            /\ lpc = "idle"
            /\ lresult = Err("Open", events[i].arg)

\* every descriptor of a namespace reference file names <run-dir>/<name>
OpenedOnRunDir ==
    \A p \in DOMAIN fds : \A f \in fds[p] :
        f.path \in {NsPath(NETNS_RUN_DIR, f.ns), NsPath(NETNS_PATH, f.ns)}

\* C19: every open of a namespace reference file, in set_net_ns and in Opt::NetNS, is
\* read-only and close-on-exec on <run-dir>/<name>, so no descriptor this code opened
\* survives an exec; a failed open fails the operation and appends no NetNsFd attribute.
C19_OpensCloseOnExec ==
    /\ \A p \in DOMAIN fds : \A f \in fds[p] : f.cloexec
    /\ OpenedOnRunDir
    /\ OpenFailureAborts

\* ---------------------------------------------------------------------------------------
\* claims: the attribute list of the outer link message
\* ---------------------------------------------------------------------------------------

\* IPLink::execute is between name() and handle.request()
Building == req.type = "link" /\ lpc \in {"opts", "kind", "kind_opts", "kind_done", "send"}

IsPrefix(s, t) == Len(s) <= Len(t) /\ \A i \in 1..Len(s) : t[i] = s[i]

IfNames(nlas) == SelectSeq(nlas, LAMBDA a : a.t = "IfName")

\* C20: while IPLink::execute builds the outer message its attribute list only grows, each
\* step leaving the previous list as a prefix of the new one; the first attribute is the
\* interface name of the request; the message handed to the transport holds exactly one
\* interface-name attribute, the name of the IPLink.
C20_AttributesAppended ==
    /\ [](/\ Building =>
               /\ Len(message.nlas) >= 1
               /\ message.nlas[1] = NlaIfName(req.name)
          /\ req.type = "link" =>
               \A i \in DOMAIN sent :
                   /\ sent[i].message = message
                   /\ IfNames(sent[i].message.nlas) = <<NlaIfName(req.name)>>)
    /\ [][Building => IsPrefix(message.nlas, message'.nlas)]_vars

\* C20 witness: a veth request with an outer option and a peer option has been sent; its
\* message holds the name, the two option attributes and the Info block
C20_Witness ==
    /\ lpc = "read"
    /\ req.link_type.kind = "veth"
    /\ Len(req.options) = 1
    /\ Len(req.link_type.options) = 1
    /\ Len(sent) = 1
    /\ Len(sent[1].message.nlas) = 4

\* ---------------------------------------------------------------------------------------
\* claims: the forked child
\* ---------------------------------------------------------------------------------------

ForkCalls == {"ip_net_ns_exec", "ip_net_ns_add"}

\* main's last call was ip_net_ns_exec or ip_net_ns_add and it has returned
ForkCallReturned == pc["main"] = "idle" /\ op["main"].fn \in ForkCalls /\ result # "none"

\* the child is gone from one state to the next
ChildEnds == pc["child"] # "none" /\ pc'["child"] = "none"

\* C21: the child forked by ip_net_ns_exec or ip_net_ns_add never returns to the caller.
\* On every path it ends by exit with status 0 or 1 (1 after a failed switch, failed setup
\* or failed work, 0 otherwise) and does nothing after exit; the call returns in the parent
\* alone, after the child has exited, and the parent's result is Ok only for exit status 0.
C21_ChildNeverReturns ==
    /\ [](/\ pc["child"] # "idle"
          /\ pc["child"] # "none" => op["child"].fn \in ForkCalls /\ pc["main"] = "wait"
          /\ pc["child"] = "exited" =>
               /\ exitStatus \in {<<0>>, <<1>>}
               /\ op["child"].fn = "ip_net_ns_exec" =>
                    /\ syslog[Len(syslog)] = [by |-> "child", call |-> "exit", ok |-> TRUE]
                    /\ exitStatus = <<0>> <=> (switchres = "Ok" /\ HasEntry("work", TRUE))
               /\ op["child"].fn = "ip_net_ns_add" =>
                    (exitStatus = <<0>> <=> HasEntry("unshare_processing", TRUE))
          /\ ForkCallReturned =>
               /\ pc["child"] = "none"
               /\ result = "Ok" => exitStatus = <<0>>
               /\ HasEntry("fork", TRUE) => (result = "Ok" <=> exitStatus = <<0>>))
    /\ [][ChildEnds => (pc["child"] = "exited" /\ pc'["main"] = "idle" /\ result' # "none")]_vars

\* C21 witness: ip_net_ns_add returned Err in the parent after its child created the
\* reference file, failed in unshare_processing and exited with status 1
C21_Witness ==
    /\ ForkCallReturned
    /\ op["main"].fn = "ip_net_ns_add"
    /\ result = "Err"
    /\ exitStatus = <<1>>
    /\ HasEntry("child_process", TRUE)
    /\ HasEntry("unshare_processing", FALSE)

====
